---- MODULE Spec2Model ----
(***************************************************************************)
(* A model of blackthorne/social/network.py: class SocialNetwork.          *)
(*                                                                         *)
(* Every method of SocialNetwork sends one Cypher statement through        *)
(* session.run, i.e. one auto-commit transaction against the graph store.  *)
(* The state of the program is therefore the content of that store: the    *)
(* User nodes, the Interest nodes and the FRIENDS_WITH and INTERESTED_IN    *)
(* relationships.  The Cypher clauses are modelled by what they do:         *)
(*   MATCH   binds every node that fits the pattern (no row: the rest of   *)
(*           the statement does nothing),                                  *)
(*   CREATE  always adds a new node or relationship, once per row,         *)
(*   MERGE   binds the nodes that fit, and creates one only if none fits,  *)
(*   COUNT(x) counts rows, COUNT(DISTINCT x) counts distinct values.       *)
(* A node is identified by its position in the store, never by its `id`    *)
(* property: the statements declare no uniqueness constraint.              *)
(***************************************************************************)
EXTENDS Integers, Sequences, FiniteSets, Bags, TLC

VARIABLES users, interests, friends, likes, ret, tx

vars == <<users, interests, friends, likes, ret, tx>>
graph == <<users, interests, friends, likes>>

(***************************************************************************)
(* Inputs and bounds                                                       *)
(***************************************************************************)
UserIds == {"a", "b", "c"}
\* the (user_id, name, location) arguments create_user is called with; `age` and
\* `created_at` are stored and never read by any statement
Profiles == { [id |-> "a", name |-> "Ann", location |-> "NY"],
              [id |-> "b", name |-> "Bob", location |-> "NY"],
              [id |-> "c", name |-> "Ann", location |-> "SF"] }
InterestNames == {"hiking", "yoga"}
Sinces == {1, 2}
NoSince == 0
None == "None"
Procs == {1, 2}

\* bounds of Spec: nodes, friendships (pairs of relationships), INTERESTED_IN
MaxUsers == 2
MaxFriendships == 1
MaxLikes == 1
\* bounds of SpecFriends
MaxQueryUsers == 3
MaxQueryFriendships == 2
\* bounds of SpecInterests
MaxCommunityUsers == 2
MaxCommunityFriendships == 1
MaxCommunityLikes == 3
MaxMinConnections == 3
\* bounds of SpecConc
MaxConcUsers == 2
MaxConcFriendships == 1
\* bounds of SpecConcInterests
MaxRaceUsers == 2
MaxRaceLikes == 2
LIMIT == 10

(***************************************************************************)
(* The store                                                               *)
(***************************************************************************)
UserNodes == 1..Len(users)
InterestNodes == 1..Len(interests)

\* MATCH (u:User {id: $user_id})
MatchUser(user_id) == {n \in UserNodes : users[n].id = user_id}

\* MATCH / the match half of MERGE (i:Interest {name: $interest})
MatchInterest(store, interest) == {k \in 1..Len(store) : store[k] = interest}

\* (x)-[:FRIENDS_WITH]->(y), read in the relationships `fr`
HasEdge(fr, x, y) == \E s \in Sinces : BagIn(<<x, y, s>>, fr)
Friend(x, y) == HasEdge(friends, x, y)

\* what a call returns to its caller: the value, or the exception raised
Returned(op, args, value) == [op |-> op, args |-> args, value |-> value, raised |-> None]
Raised(op, args, exc) == [op |-> op, args |-> args, value |-> None, raised |-> exc]

\* a session with no statement in flight
Idle == [phase |-> "idle", pending |-> EmptyBag, todo |-> EmptyBag,
         urows |-> {}, interest |-> "", bound |-> {}, create |-> FALSE]

Init ==
    /\ users = <<>>
    /\ interests = <<>>
    /\ friends = EmptyBag
    /\ likes = EmptyBag
    /\ ret = Returned("__init__", <<>>, None)
    /\ tx = [p \in Procs |-> Idle]

(***************************************************************************)
(* The mutating methods, each one statement run to completion              *)
(***************************************************************************)

\* CREATE (u:User {id, name, age, location, created_at}): no existence test
CreateUserNode(store, profile) == Append(store, profile)

create_user(profile) ==
    /\ users' = CreateUserNode(users, profile)
    /\ ret' = Returned("create_user", <<>>, None)
    /\ UNCHANGED <<interests, friends, likes, tx>>

\* the rows of MATCH (u1:User {id: $user1_id}) MATCH (u2:User {id: $user2_id})
FriendshipRows(user1_id, user2_id) == MatchUser(user1_id) \X MatchUser(user2_id)

\* CREATE (u1)-[:FRIENDS_WITH {since}]->(u2), once per row
ForwardEdges(rows, since) ==
    [e \in {<<r[1], r[2], since>> : r \in rows} |-> 1]

\* a second CREATE that repeats the direction of the first
BackwardEdgesSameDirection(rows, since) == ForwardEdges(rows, since)

\* CREATE (u2)-[:FRIENDS_WITH {since}]->(u1), once per row
BackwardEdges(rows, since) ==
    [e \in {<<r[2], r[1], since>> : r \in rows} |-> 1]

\* since = datetime.now().isoformat() when the caller gives none
EffectiveSince(since, now) == IF since = NoSince THEN now ELSE since

add_friendship(user1_id, user2_id, since, now) ==
    LET rows == FriendshipRows(user1_id, user2_id)
        s == EffectiveSince(since, now)
        created == ForwardEdges(rows, s) (+) BackwardEdges(rows, s)
    IN  /\ friends' = friends (+) created
        /\ ret' = Returned("add_friendship", <<>>, None)
        /\ UNCHANGED <<users, interests, likes, tx>>

\* MERGE (i:Interest {name: $interest}), run once per row: it creates the node
\* only when there is a row and no node of that name; the store after it
MergeCreates(store, rows, interest) ==
    rows # {} /\ MatchInterest(store, interest) = {}

MergeInterest(store, rows, interest) ==
    IF MergeCreates(store, rows, interest) THEN Append(store, interest) ELSE store

\* CREATE (u)-[:INTERESTED_IN]->(i), once per row of (u, i)
InterestEdges(rows, bound) ==
    [e \in rows \X bound |-> 1]

add_interest(user_id, interest) ==
    LET rows == MatchUser(user_id)
        merged == MergeInterest(interests, rows, interest)
        created == InterestEdges(rows, MatchInterest(merged, interest))
    IN  /\ interests' = merged
        /\ likes' = likes (+) created
        /\ ret' = Returned("add_interest", <<>>, None)
        /\ UNCHANGED <<users, friends, tx>>

\* MATCH (n) DETACH DELETE n
clear_database ==
    /\ users' = <<>>
    /\ interests' = <<>>
    /\ friends' = EmptyBag
    /\ likes' = EmptyBag
    /\ ret' = Returned("clear_database", <<>>, None)
    /\ UNCHANGED tx

(***************************************************************************)
(* The queries.  A query reads the store and returns; where Cypher leaves  *)
(* the order of rows open (ties of ORDER BY, the record single() keeps),   *)
(* every order is a possible return value.                                 *)
(***************************************************************************)
Min(a, b) == IF a <= b THEN a ELSE b

Perms(S) ==
    {f \in [1..Cardinality(S) -> S] :
        \A i, j \in 1..Cardinality(S) : i # j => f[i] # f[j]}

\* ORDER BY key DESC: every listing of the rows (the domain of `key`) with
\* non-increasing keys
OrderByDesc(key) ==
    {f \in Perms(DOMAIN key) :
        \A i \in 1..(Len(f) - 1) : key[f[i]] >= key[f[i + 1]]}

\* LIMIT 10
Limit(rows) == SubSeq(rows, 1, Min(Len(rows), LIMIT))

\* MATCH (user:User {id})-[:FRIENDS_WITH]->(friend)-[:FRIENDS_WITH]->(fof:User)
\* WHERE user <> fof AND NOT (user)-[:FRIENDS_WITH]->(fof)
FofMatches(user_id) ==
    {m \in MatchUser(user_id) \X UserNodes \X UserNodes :
        /\ Friend(m[1], m[2])
        /\ Friend(m[2], m[3])
        /\ m[1] # m[3]
        /\ ~Friend(m[1], m[3])}

\* the grouping key of RETURN fof.id, fof.name, fof.location, COUNT(...)
FofKey(n) == [user_id |-> users[n].id, name |-> users[n].name,
              location |-> users[n].location]

\* COUNT(DISTINCT friend) of one group
MutualFriends(user_id, key) ==
    Cardinality({m[2] : m \in {x \in FofMatches(user_id) : FofKey(x[3]) = key}})

\* the rows of find_friends_of_friends before ORDER BY and LIMIT
FofRows(user_id) ==
    {[user_id |-> k.user_id, name |-> k.name, location |-> k.location,
      mutual_friends |-> MutualFriends(user_id, k)] :
        k \in {FofKey(m[3]) : m \in FofMatches(user_id)}}

FofResults(user_id) ==
    {Limit(rows) : rows \in OrderByDesc([r \in FofRows(user_id) |-> r.mutual_friends])}

find_friends_of_friends(user_id) ==
    /\ \E value \in FofResults(user_id) :
          ret' = Returned("find_friends_of_friends", <<user_id>>, value)
    /\ UNCHANGED <<graph, tx>>

\* -[:FRIENDS_WITH*]- : one relationship, either direction
Adjacent(x, y) == Friend(x, y) \/ Friend(y, x)

\* levelled breadth-first expansion; -1 when `target` is never reached
RECURSIVE BfsDistance(_, _, _, _)
BfsDistance(frontier, visited, target, depth) ==
    IF target \in frontier THEN depth
    ELSE LET next == {y \in UserNodes \ visited : \E x \in frontier : Adjacent(x, y)}
         IN  IF next = {} THEN -1
             ELSE BfsDistance(next, visited \cup next, target, depth + 1)

Distance(x, y) == BfsDistance({x}, {x}, y, 0)

\* shortestPath((u1)-[:FRIENDS_WITH*]-(u2)) for two different nodes
ShortestPaths(x, y) ==
    LET d == Distance(x, y)
    IN  IF d < 1 THEN {}
        ELSE {p \in [1..(d + 1) -> UserNodes] :
                /\ p[1] = x
                /\ p[d + 1] = y
                /\ \A i \in 1..d : Adjacent(p[i], p[i + 1])}

\* [node in nodes(path) | node.name]
PathNames(p) == [i \in DOMAIN p |-> users[p[i]].name]

\* the rows of MATCH path = shortestPath((u1:User {id})-[..]-(u2:User {id}))
PathPairs(user1_id, user2_id) == MatchUser(user1_id) \X MatchUser(user2_id)

PathRecords(user1_id, user2_id) ==
    UNION {ShortestPaths(pr[1], pr[2]) :
              pr \in {q \in PathPairs(user1_id, user2_id) : q[1] # q[2]}}

\* record["path"] if record else None: None is the empty list here
NoPath == <<>>

\* shortestPath refuses a row whose start and end are the same node: the
\* server either fails the statement (cypher.forbid_shortestpath_common_nodes,
\* the default) or drops the row.  result.single() keeps one of the records.
find_shortest_connection_path(user1_id, user2_id) ==
    LET args == <<user1_id, user2_id>>
        op == "find_shortest_connection_path"
    IN  /\ \/ /\ \E pr \in PathPairs(user1_id, user2_id) : pr[1] = pr[2]
              /\ ret' = Raised(op, args, "ClientError")
           \/ /\ PathRecords(user1_id, user2_id) = {}
              /\ ret' = Returned(op, args, NoPath)
           \/ \E p \in PathRecords(user1_id, user2_id) :
                 ret' = Returned(op, args, PathNames(p))
        /\ UNCHANGED <<graph, tx>>

\* MATCH (user:User {id})-[:INTERESTED_IN]->(interest)<-[:INTERESTED_IN]-(other:User)
\* WHERE user <> other AND NOT (user)-[:FRIENDS_WITH]->(other)
RecommendMatches(user_id) ==
    {m \in MatchUser(user_id) \X InterestNodes \X UserNodes :
        /\ BagIn(<<m[1], m[2]>>, likes)
        /\ BagIn(<<m[3], m[2]>>, likes)
        /\ m[1] # m[3]
        /\ ~Friend(m[1], m[3])}

\* WITH other, COUNT(DISTINCT interest), COLLECT(DISTINCT interest.name):
\* one row per `other` node; the collected names are kept as a set
RecommendRow(user_id, other) ==
    LET shared == {m[2] : m \in {x \in RecommendMatches(user_id) : x[3] = other}}
    IN  [user_id |-> users[other].id, name |-> users[other].name,
         location |-> users[other].location,
         shared_interests |-> Cardinality(shared),
         common_interests |-> {interests[i] : i \in shared}]

RecommendResults(user_id) ==
    LET others == {m[3] : m \in RecommendMatches(user_id)}
        listings == OrderByDesc([o \in others |->
                                    RecommendRow(user_id, o).shared_interests])
    IN  {Limit([i \in DOMAIN l |-> RecommendRow(user_id, l[i])]) : l \in listings}

recommend_friends_by_interests(user_id) ==
    /\ \E value \in RecommendResults(user_id) :
          ret' = Returned("recommend_friends_by_interests", <<user_id>>, value)
    /\ UNCHANGED <<graph, tx>>

\* MATCH (i:Interest)<-[:INTERESTED_IN]-(u:User): one row per relationship
\* COUNT(u) of the group of interest node i
CommunitySize(i) ==
    LET edges == {e \in BagToSet(likes) : e[2] = i}
        RECURSIVE Sum(_)
        Sum(S) == IF S = {} THEN 0
                  ELSE LET e == CHOOSE x \in S : TRUE
                       IN  CopiesIn(e, likes) + Sum(S \ {e})
    IN  Sum(edges)

\* COLLECT(u.name) of the group: one name per row, kept as a bag
CommunityMembers(i) ==
    LET holders == {e[1] : e \in {x \in BagToSet(likes) : x[2] = i}}
        RECURSIVE Sum(_, _)
        Sum(S, nm) == IF S = {} THEN 0
                      ELSE LET u == CHOOSE x \in S : TRUE
                           IN  (IF users[u].name = nm THEN CopiesIn(<<u, i>>, likes) ELSE 0)
                               + Sum(S \ {u}, nm)
    IN  [nm \in {users[u].name : u \in holders} |-> Sum(holders, nm)]

CommunityRow(i) ==
    [interest |-> interests[i], size |-> CommunitySize(i), members |-> CommunityMembers(i)]

\* WHERE size >= $min_connections ... ORDER BY size DESC
CommunityResults(min_connections) ==
    LET groups == {i \in InterestNodes :
                      CommunitySize(i) > 0 /\ CommunitySize(i) >= min_connections}
        listings == OrderByDesc([i \in groups |-> CommunitySize(i)])
    IN  {[k \in DOMAIN l |-> CommunityRow(l[k])] : l \in listings}

find_communities(min_connections) ==
    /\ \E value \in CommunityResults(min_connections) :
          ret' = Returned("find_communities", <<min_connections>>, value)
    /\ UNCHANGED <<graph, tx>>

\* OPTIONAL MATCH (user)-[:FRIENDS_WITH]->()-[:FRIENDS_WITH]->(fof)
\* WHERE NOT (user)-[:FRIENDS_WITH]->(fof) AND user <> fof
StatsFof(user) ==
    {x \in UserNodes :
        /\ \E f \in UserNodes : Friend(user, f) /\ Friend(f, x)
        /\ ~Friend(user, x)
        /\ user # x}

\* RETURN user.name, COUNT(DISTINCT ...): one record per user.name
StatsRecord(group) ==
    [name |-> users[CHOOSE n \in group : TRUE].name,
     friend_count |-> Cardinality({f \in UserNodes : \E n \in group : Friend(n, f)}),
     interest_count |->
         Cardinality({i \in InterestNodes : \E n \in group : BagIn(<<n, i>>, likes)}),
     potential_connections |-> Cardinality(UNION {StatsFof(n) : n \in group})]

\* the empty dict
NoStats == [name |-> None, friend_count |-> -1, interest_count |-> -1,
            potential_connections |-> -1]

\* record = result.single(); dict(record) if record else {}
StatsResults(user_id) ==
    LET matched == MatchUser(user_id)
        groups == {{n \in matched : users[n].name = nm} : nm \in {users[n].name : n \in matched}}
    IN  IF groups = {} THEN {NoStats} ELSE {StatsRecord(g) : g \in groups}

get_network_statistics(user_id) ==
    /\ \E value \in StatsResults(user_id) :
          ret' = Returned("get_network_statistics", <<user_id>>, value)
    /\ UNCHANGED <<graph, tx>>

(***************************************************************************)
(* Two sessions.  session.run opens an auto-commit transaction: what its   *)
(* statement creates stays in the transaction until the statement ends,    *)
(* and another session's statement reads the committed store only.  MERGE  *)
(* takes no lock without a uniqueness constraint, and the statements       *)
(* declare none: its match is one read of the committed store, its create  *)
(* a later write.                                                          *)
(***************************************************************************)

\* a CREATE that commits on its own, before its statement has ended
WriteThrough(store, pending, created) ==
    [store |-> store (+) created, pending |-> pending]

\* where a CREATE of an open transaction goes: the store is left alone, the
\* transaction holds the relationships until it commits
Uncommitted(store, pending, created) ==
    [store |-> store, pending |-> pending (+) created]

\* session p runs the MATCHes and the first CREATE of add_friendship; the
\* second CREATE is still to run
add_friendship_begin(p, user1_id, user2_id, since, now) ==
    LET rows == FriendshipRows(user1_id, user2_id)
        s == EffectiveSince(since, now)
        w == Uncommitted(friends, EmptyBag, ForwardEdges(rows, s))
    IN  /\ tx[p].phase = "idle"
        /\ friends' = w.store
        /\ tx' = [tx EXCEPT ![p] = [Idle EXCEPT !.phase = "forward",
                                                !.pending = w.pending,
                                                !.todo = BackwardEdges(rows, s)]]
        /\ UNCHANGED <<users, interests, likes, ret>>

\* session p runs the second CREATE; the statement ends and commits
add_friendship_commit(p) ==
    LET w == Uncommitted(friends, tx[p].pending, tx[p].todo)
    IN  /\ tx[p].phase = "forward"
        /\ friends' = w.store (+) w.pending
        /\ tx' = [tx EXCEPT ![p] = Idle]
        /\ ret' = Returned("add_friendship", <<>>, None)
        /\ UNCHANGED <<users, interests, likes>>

\* session p runs MATCH (u:User) and the match half of MERGE
add_interest_begin(p, user_id, interest) ==
    LET rows == MatchUser(user_id)
    IN  /\ tx[p].phase = "idle"
        /\ tx' = [tx EXCEPT ![p] =
                    [Idle EXCEPT !.phase = "merged", !.urows = rows,
                                 !.interest = interest,
                                 !.bound = MatchInterest(interests, interest),
                                 !.create = MergeCreates(interests, rows, interest)]]
        /\ UNCHANGED <<graph, ret>>

\* session p creates the node MERGE did not find, then the relationships;
\* the statement ends and commits
add_interest_commit(p) ==
    LET merged == IF tx[p].create THEN Append(interests, tx[p].interest) ELSE interests
        bound == IF tx[p].create THEN {Len(merged)} ELSE tx[p].bound
    IN  /\ tx[p].phase = "merged"
        /\ interests' = merged
        /\ likes' = likes (+) InterestEdges(tx[p].urows, bound)
        /\ tx' = [tx EXCEPT ![p] = Idle]
        /\ ret' = Returned("add_interest", <<>>, None)
        /\ UNCHANGED <<users, friends>>

\* session p, with no statement of its own in flight, runs a read query
read_friends_of_friends(p, user_id) ==
    /\ tx[p].phase = "idle"
    /\ find_friends_of_friends(user_id)

(***************************************************************************)
(* Specifications.  The bounds are conditions on the state a step leads    *)
(* to; the methods themselves have none.                                   *)
(***************************************************************************)
\* relationships the open transactions will have created once they commit
PendingFriendEdges ==
    LET RECURSIVE Sum(_)
        Sum(S) == IF S = {} THEN 0
                  ELSE LET p == CHOOSE x \in S : TRUE
                       IN  BagCardinality(tx[p].pending) + BagCardinality(tx[p].todo)
                           + Sum(S \ {p})
    IN  Sum(Procs)

PendingLikes ==
    LET RECURSIVE Sum(_)
        Sum(S) == IF S = {} THEN 0
                  ELSE LET p == CHOOSE x \in S : TRUE
                       IN  (IF tx[p].phase = "merged"
                            THEN Cardinality(tx[p].urows)
                                 * (IF tx[p].create THEN 1 ELSE Cardinality(tx[p].bound))
                            ELSE 0) + Sum(S \ {p})
    IN  Sum(Procs)

Within(nUsers, nFriendships, nLikes) ==
    /\ Len(users) <= nUsers
    /\ BagCardinality(friends) <= 2 * nFriendships
    /\ BagCardinality(likes) <= nLikes

StoreBound == Within(MaxUsers, MaxFriendships, MaxLikes)
QueryBound == Within(MaxQueryUsers, MaxQueryFriendships, 0)
CommunityBound == Within(MaxCommunityUsers, MaxCommunityFriendships, MaxCommunityLikes)
ConcBound ==
    /\ Len(users) <= MaxConcUsers
    /\ BagCardinality(friends) + PendingFriendEdges <= 2 * MaxConcFriendships
RaceBound ==
    /\ Len(users) <= MaxRaceUsers
    /\ BagCardinality(likes) + PendingLikes <= MaxRaceLikes

\* the store under any sequence of the mutating methods
Next ==
    \/ \E profile \in Profiles : create_user(profile) /\ StoreBound'
    \/ \E u1, u2 \in UserIds, since \in Sinces \cup {NoSince} :
          \E now \in (IF since = NoSince THEN Sinces ELSE {since}) :
             add_friendship(u1, u2, since, now) /\ StoreBound'
    \/ \E u \in UserIds, i \in InterestNames : add_interest(u, i) /\ StoreBound'
    \/ clear_database

Spec == Init /\ [][Next]_vars

\* the friendship graph and the queries that read it
NextFriends ==
    \/ \E profile \in Profiles : create_user(profile) /\ QueryBound'
    \/ \E u1, u2 \in UserIds, since \in Sinces \cup {NoSince} :
          \E now \in (IF since = NoSince THEN Sinces ELSE {since}) :
             add_friendship(u1, u2, since, now) /\ QueryBound'
    \/ clear_database
    \/ \E u \in UserIds : find_friends_of_friends(u)
    \/ \E u1, u2 \in UserIds : find_shortest_connection_path(u1, u2)
    \/ \E u \in UserIds : get_network_statistics(u)

SpecFriends == Init /\ [][NextFriends]_vars

\* the interests and the queries that read them
NextInterests ==
    \/ \E profile \in Profiles : create_user(profile) /\ CommunityBound'
    \/ \E u1, u2 \in UserIds, since \in Sinces \cup {NoSince} :
          \E now \in (IF since = NoSince THEN Sinces ELSE {since}) :
             add_friendship(u1, u2, since, now) /\ CommunityBound'
    \/ \E u \in UserIds, i \in InterestNames : add_interest(u, i) /\ CommunityBound'
    \/ clear_database
    \/ \E u \in UserIds : recommend_friends_by_interests(u)
    \/ \E m \in 1..MaxMinConnections : find_communities(m)
    \/ \E u \in UserIds : get_network_statistics(u)

SpecInterests == Init /\ [][NextInterests]_vars

\* two sessions whose add_friendship statements and read queries interleave
NextConc ==
    \/ \E profile \in Profiles : create_user(profile) /\ ConcBound'
    \/ \E p \in Procs, u1, u2 \in UserIds, since \in Sinces \cup {NoSince} :
          \E now \in (IF since = NoSince THEN Sinces ELSE {since}) :
             add_friendship_begin(p, u1, u2, since, now) /\ ConcBound'
    \/ \E p \in Procs : add_friendship_commit(p)
    \/ \E p \in Procs, u \in UserIds : read_friends_of_friends(p, u)

SpecConc == Init /\ [][NextConc]_vars

\* two sessions whose add_interest statements interleave
NextConcInterests ==
    \/ \E profile \in Profiles : create_user(profile) /\ RaceBound'
    \/ \E p \in Procs, u \in UserIds, i \in InterestNames :
          add_interest_begin(p, u, i) /\ RaceBound'
    \/ \E p \in Procs : add_interest_commit(p)

SpecConcInterests == Init /\ [][NextConcInterests]_vars

(***************************************************************************)
(* Properties                                                              *)
(***************************************************************************)
Reverse(e) == <<e[2], e[1], e[3]>>

\* C1: every FRIENDS_WITH relationship A->B with since = s has a relationship
\* B->A with the same since, in every state reachable by create_user,
\* add_friendship, add_interest and clear_database.
FriendshipSymmetric ==
    \A e \in BagToSet(friends) : BagIn(Reverse(e), friends)

\* a friendship between two different nodes has been added
FriendshipSymmetricWitness ==
    /\ ret.op = "add_friendship"
    /\ \E e \in BagToSet(friends) : e[1] # e[2]

\* C2: at every moment of every interleaving of two sessions, also while an
\* add_friendship has created one direction and not yet the other, the store
\* that the read queries see holds as many relationships A->B as B->A for each
\* since: the two directions become visible in one step or not at all.
AtomicDualInsert ==
    \A x, y \in UserNodes, s \in Sinces :
        CopiesIn(<<x, y, s>>, friends) = CopiesIn(<<y, x, s>>, friends)

\* a read query has returned to one session while the other has created one
\* direction of a friendship between two nodes and not the other
AtomicDualInsertWitness ==
    /\ ret.op = "find_friends_of_friends"
    /\ \E p \in Procs :
          /\ tx[p].phase = "forward"
          /\ \E e \in BagToSet(tx[p].pending) :
                /\ e[1] # e[2]
                /\ ~BagIn(Reverse(e), tx[p].pending)
                /\ ~BagIn(e, friends)

\* C3: after any interleaving of add_interest calls the store holds at most
\* one Interest node per name.
InterestDedup ==
    \A i, j \in InterestNodes : interests[i] = interests[j] => i = j

\* C4: create_user with an id that exists is rejected, so no two nodes share
\* an id.
NoTwoNodesShareAnId ==
    \A m, n \in UserNodes : users[m].id = users[n].id => m = n

\* C5: add_friendship with a missing endpoint, and add_interest with a missing
\* user, fail with NotFound and leave the graph unchanged.
MissingEndpointRaisesNotFound ==
    [][/\ \A u1, u2 \in UserIds, s \in Sinces :
             (add_friendship(u1, u2, s, s)
                /\ (MatchUser(u1) = {} \/ MatchUser(u2) = {}))
             => (ret'.raised = "NotFound" /\ graph' = graph)
       /\ \A u \in UserIds, i \in InterestNames :
             (add_interest(u, i) /\ MatchUser(u) = {})
             => (ret'.raised = "NotFound" /\ graph' = graph)]_vars

\* C6: no FRIENDS_WITH relationship from a node to itself, and at most one for
\* each ordered pair of nodes, also after add_friendship(A, A) and after
\* add_friendship(A, B) repeated.
SimpleFriendGraph ==
    /\ \A e \in BagToSet(friends) : e[1] # e[2]
    /\ \A x, y \in UserNodes :
          Cardinality({s \in Sinces : BagIn(<<x, y, s>>, friends)}) <= 1
    /\ \A e \in BagToSet(friends) : CopiesIn(e, friends) = 1

\* hops between the users of two ids: the least over their nodes, -1 if none
IdDistance(user1_id, user2_id) ==
    LET ds == {Distance(pr[1], pr[2]) : pr \in MatchUser(user1_id) \X MatchUser(user2_id)}
                 \ {-1}
    IN  IF ds = {} THEN -1 ELSE CHOOSE d \in ds : \A e \in ds : d <= e

\* C7: find_shortest_connection_path(u1, u2) returns a path from u1 to u2 along
\* FRIENDS_WITH relationships with the least number of hops, and returns absent
\* exactly when u1 and u2 are not connected or one of them is unknown.
ShortestPathMinimal ==
    ret.op = "find_shortest_connection_path" =>
        LET d == IdDistance(ret.args[1], ret.args[2])
        IN  /\ ret.raised = None
            /\ IF d = -1 THEN ret.value = NoPath
               ELSE /\ Len(ret.value) = d + 1
                    /\ \E p \in [1..(d + 1) -> UserNodes] :
                          /\ users[p[1]].id = ret.args[1]
                          /\ users[p[d + 1]].id = ret.args[2]
                          /\ \A i \in 1..d : Adjacent(p[i], p[i + 1])
                          /\ PathNames(p) = ret.value

\* C8: find_friends_of_friends(U) contains neither U nor a user with a
\* FRIENDS_WITH relationship from U, and every entry is two hops from U.
SecondDegreeExclusion ==
    ret.op = "find_friends_of_friends" =>
        \A k \in DOMAIN ret.value :
            LET U == ret.args[1]
                V == ret.value[k].user_id
            IN  /\ V # U
                /\ ~\E u \in MatchUser(U), v \in MatchUser(V) : Friend(u, v)
                /\ \E u \in MatchUser(U), f \in UserNodes, v \in MatchUser(V) :
                      Friend(u, f) /\ Friend(f, v)

\* C9: for an existing user U, get_network_statistics(U).potential_connections
\* is the number of entries find_friends_of_friends(U) returns without LIMIT.
StatisticsConsistent ==
    (ret.op = "get_network_statistics" /\ MatchUser(ret.args[1]) # {}) =>
        ret.value.potential_connections = Cardinality(FofRows(ret.args[1]))

\* the user nodes that hold an interest of this name
Holders(interest) ==
    {u \in UserNodes :
        \E i \in MatchInterest(interests, interest) : BagIn(<<u, i>>, likes)}

\* C10: find_communities(m) returns an interest exactly when at least m
\* distinct users hold it, reports that number as its size, and lists the
\* groups by non-increasing size.
CommunityThreshold ==
    ret.op = "find_communities" =>
        LET rows == ret.value
        IN  /\ \A I \in InterestNames :
                  (\E k \in DOMAIN rows : rows[k].interest = I)
                     <=> (Cardinality(Holders(I)) >= ret.args[1])
            /\ \A k \in DOMAIN rows :
                  rows[k].size = Cardinality(Holders(rows[k].interest))
            /\ \A k \in DOMAIN rows :
                  k + 1 \in DOMAIN rows => rows[k].size >= rows[k + 1].size
====
